---- MODULE Spec2Model ----
(***************************************************************************)
(* AeroShelf API (src/main.py, src/schemas.py): the HTTP handlers over the *)
(* "order" and "shelfcell" collections of the document store.              *)
(*                                                                         *)
(* Handlers are synchronous FastAPI endpoints, so they run on worker       *)
(* threads and interleave at store operations.  A handler that performs a  *)
(* single store operation is one atomic action; get_shelves and            *)
(* toggle_motor perform several store operations and are split at each.    *)
(* The store is taken to be configured (db is not None).                   *)
(*                                                                         *)
(* No handler touches both collections, so the model is checked as two     *)
(* specifications over the same variables: SpecOrders (create_order,       *)
(* get_order, set_order_progress) and SpecShelf (get_shelves,              *)
(* toggle_motor).                                                          *)
(***************************************************************************)
EXTENDS Integers, Sequences, FiniteSets, TLC

\* ----------------------------------------------------------------- bounds
\* Orders the store accepts before create_order is no longer offered.
MaxOrders == 2
\* Worker threads serving shelf requests concurrently.
NumThreads == 2

\* ------------------------------------------------------ program constants
\* get_shelves seeds range(1, 21): the cells A1..A20.
NumCells == 20

Threads == 1..NumThreads

\* f"A{i}"
CellCode(i) == <<"A", i>>

SeedCodes == {CellCode(i) : i \in 1..NumCells}

\* Cell codes clients ask toggle_motor for: a seeded one and one never seeded.
ToggleCodes == {CellCode(1), CellCode(NumCells + 1)}

\* Order ids clients send.  0 stands for a string that is not a 24-hex
\* ObjectId; k >= 1 for the id the store gave the k-th order created.  One
\* well-formed id is never assigned.
ClientOrderIds == 0..(MaxOrders + 1)

\* progress query arguments clients send.
ProgressArgs == {-1, 0, 50, 100, 101}

Products == {"P", "Q"}

\* Item lists clients send (quantities below 1 included).
ItemLists ==
    { <<[product_id |-> "P", quantity |-> 1]>>,
      <<[product_id |-> "P", quantity |-> 2], [product_id |-> "Q", quantity |-> 1]>>,
      <<[product_id |-> "P", quantity |-> 0]>>,
      <<[product_id |-> "Q", quantity |-> 2], [product_id |-> "P", quantity |-> -1]>> }

\* user_email strings clients send, as <<local part, domain>>.
Emails == { <<"ann", "x.io">>, <<"ann", "">> }

VARIABLES
    shelfcell,  \* the shelfcell collection: a set of documents
    order,      \* the order collection: a sequence, the k-th order has id k
    pc,         \* per thread: where it is in a multi-step handler
    idx,        \* per thread: loop variable i of get_shelves' seeding loop
    cell,       \* per thread: the document toggle_motor's find_one returned
    last,       \* the most recent response sent to a client
    accepted,   \* history: the payload of each order create_order accepted
    flips       \* history: parity of the toggle_motor calls completed, per code

vars == <<shelfcell, order, pc, idx, cell, last, accepted, flips>>

orderVars == <<order, accepted>>
shelfVars == <<shelfcell, pc, idx, cell, flips>>

\* --------------------------------------------------------------- schemas

\* ShelfCell(cell_code=..., stock=...) with the model's defaults.
ShelfCell(code, stock) ==
    [cell_code |-> code, product_id |-> "None", stock |-> stock,
     motor_active |-> FALSE, sensor_value |-> "None"]

\* OrderItem.quantity: Field(..., ge=1), for every item of OrderCreate.items.
ItemsValid(items) == \A k \in 1..Len(items) : items[k].quantity >= 1

\* Order.user_email: EmailStr.
IsEmail(e) == e[1] # "" /\ e[2] # ""

RECURSIVE SumQuantities(_)
SumQuantities(items) ==
    IF items = <<>> THEN 0
    ELSE items[1].quantity + SumQuantities(Tail(items))

Min(a, b) == IF a <= b THEN a ELSE b
Max(a, b) == IF a >= b THEN a ELSE b

\* ------------------------------------------------------------- responses

NoCell == [_id |-> <<0, 0>>, cell_code |-> <<"", 0>>, motor_active |-> FALSE]

Response(op, status) ==
    [op |-> op, status |-> status, id |-> 0, arg |-> 0, progress |-> 0,
     state |-> "", cell_code |-> <<"", 0>>, motor_active |-> FALSE]

\* ------------------------------------------------------------------ store

\* The store as a fresh deployment finds it.
EmptyCollection == {}

\* The store of a deployment whose shelf was seeded earlier and whose operator
\* has since loaded one unit of product P into cell A1 (through the database
\* viewer; no handler writes stock or product_id).
StockedCollection ==
    { [ShelfCell(CellCode(i), IF i = 1 THEN 1 ELSE 0) EXCEPT
          !.product_id = IF i = 1 THEN "P" ELSE "None"]
        @@ [_id |-> <<0, i>>] : i \in 1..NumCells }

\* database.create_document on shelfcell: the document stored under a fresh id.
create_document(coll, id, doc) == coll \cup {doc @@ [_id |-> id]}

\* database.get_documents(name): every document of the collection.
get_documents(coll) == coll

\* collection.find_one({"cell_code": code}): the documents it may return.
find_one(coll, code) == {d \in coll : d.cell_code = code}

\* collection.update_one({"_id": id}, {"$set": {"motor_active": v}})
update_motor(coll, id, v) ==
    {IF d._id = id THEN [d EXCEPT !.motor_active = v] ELSE d : d \in coll}

Init ==
    /\ shelfcell \in {EmptyCollection, StockedCollection}
    /\ order = <<>>
    /\ pc = [t \in Threads |-> "idle"]
    /\ idx = [t \in Threads |-> 0]
    /\ cell = [t \in Threads |-> NoCell]
    /\ last = Response("none", 0)
    /\ accepted = <<>>
    /\ flips = [c \in ToggleCodes |-> 0]

\* ----------------------------------------------------------------- orders

\* Total counting the items instead of adding their quantities.
TotalCountsItems(items) == Len(items)

\* total = sum(i.quantity for i in payload.items)
Total(items) == SumQuantities(items)

\* Order(user_email=..., items=..., total_items=total, status="processing", progress=0)
NewOrder(email, items) ==
    [user_email |-> email, items |-> items, total_items |-> Total(items),
     status |-> "processing", progress |-> 0]

\* Clamp without the lower bound.
ClampNoFloor(p) == Min(100, p)

\* progress = max(0, min(100, progress))
Clamp(p) == Max(0, Min(100, p))

\* StatusOf with a strict comparison.
StatusOfStrict(progress) == IF progress > 100 THEN "ready" ELSE "processing"

\* status = "ready" if progress >= 100 else "processing"
StatusOf(progress) == IF progress >= 100 THEN "ready" ELSE "processing"

\* ObjectId(order_id): raises InvalidId unless the string is a 24-hex id.
IsObjectId(id) == id >= 1

\* POST /orders
create_order(email, items) ==
    /\ IF ~ItemsValid(items)
         THEN \* request validation of OrderCreate fails: 422, handler not entered
              /\ last' = Response("create_order", 422)
              /\ UNCHANGED orderVars
         ELSE IF ~IsEmail(email)
         THEN \* Order(...) raises inside the handler: 500, nothing stored
              /\ last' = Response("create_order", 500)
              /\ UNCHANGED orderVars
         ELSE /\ Len(order) < MaxOrders
              /\ order' = Append(order, NewOrder(email, items))
              /\ accepted' = Append(accepted, [user_email |-> email, items |-> items])
              /\ last' = [Response("create_order", 200) EXCEPT
                            !.id = Len(order) + 1,
                            !.state = NewOrder(email, items).status,
                            !.progress = NewOrder(email, items).progress]
    /\ UNCHANGED shelfVars

\* GET /orders/{order_id}
get_order(id) ==
    /\ IF ~IsObjectId(id)
         THEN last' = [Response("get_order", 500) EXCEPT !.id = id]
         ELSE IF id \in DOMAIN order
         THEN last' = [Response("get_order", 200) EXCEPT
                         !.id = id,
                         !.state = order[id].status,
                         !.progress = order[id].progress]
         ELSE last' = [Response("get_order", 404) EXCEPT !.id = id]
    /\ UNCHANGED orderVars
    /\ UNCHANGED shelfVars

\* POST /orders/{order_id}/progress
set_order_progress(id, p) ==
    /\ IF ~IsObjectId(id)
         THEN /\ last' = [Response("set_order_progress", 500) EXCEPT !.id = id, !.arg = p]
              /\ UNCHANGED order
         ELSE /\ order' = [k \in DOMAIN order |->
                             IF k = id
                               THEN [order[k] EXCEPT !.progress = Clamp(p),
                                                     !.status = StatusOf(Clamp(p))]
                               ELSE order[k]]
              /\ last' = [Response("set_order_progress", 200) EXCEPT
                            !.id = id, !.arg = p,
                            !.progress = Clamp(p),
                            !.state = StatusOf(Clamp(p))]
    /\ UNCHANGED accepted
    /\ UNCHANGED shelfVars

OrderNext ==
    \/ \E e \in Emails, items \in ItemLists : create_order(e, items)
    \/ \E id \in ClientOrderIds : get_order(id)
    \/ \E id \in ClientOrderIds, p \in ProgressArgs : set_order_progress(id, p)

SpecOrders == Init /\ [][OrderNext]_vars

\* ------------------------------------------------------------------ shelf

\* GET /shelves: docs = get_documents("shelfcell"); when docs is not empty the
\* handler returns them, otherwise it enters the seeding loop.
get_shelves_read(t) ==
    /\ pc[t] = "idle"
    /\ IF get_documents(shelfcell) = {}
         THEN /\ pc' = [pc EXCEPT ![t] = "seed"]
              /\ idx' = [idx EXCEPT ![t] = 1]
              /\ UNCHANGED last
         ELSE /\ last' = Response("get_shelves", 200)
              /\ UNCHANGED <<pc, idx>>
    /\ UNCHANGED <<shelfcell, cell, flips>>
    /\ UNCHANGED orderVars

\* for i in range(1, 21): create_document("shelfcell", ShelfCell(cell_code=f"A{i}", stock=0))
\* One iteration: one insert.
get_shelves_seed(t) ==
    /\ pc[t] = "seed"
    /\ shelfcell' = create_document(shelfcell, <<t, idx[t]>>, ShelfCell(CellCode(idx[t]), 0))
    /\ IF idx[t] = NumCells
         THEN /\ pc' = [pc EXCEPT ![t] = "reread"]
              /\ idx' = [idx EXCEPT ![t] = 0]
         ELSE /\ idx' = [idx EXCEPT ![t] = idx[t] + 1]
              /\ UNCHANGED pc
    /\ UNCHANGED <<cell, flips, last>>
    /\ UNCHANGED orderVars

\* docs = get_documents("shelfcell") after the loop, and the return.
get_shelves_return(t) ==
    /\ pc[t] = "reread"
    /\ pc' = [pc EXCEPT ![t] = "idle"]
    /\ last' = Response("get_shelves", 200)
    /\ UNCHANGED <<shelfcell, idx, cell, flips>>
    /\ UNCHANGED orderVars

\* NewState without the negation.
NewStateSame(c) == c.motor_active

\* new_state = not cell.get("motor_active", False)
NewState(c) == ~c.motor_active

\* POST /shelves/{cell_code}/motor, up to the 404 or the document found:
\* cell = db["shelfcell"].find_one({"cell_code": cell_code})
toggle_motor_find(t, code) ==
    /\ pc[t] = "idle"
    /\ IF find_one(shelfcell, code) = {}
         THEN /\ last' = [Response("toggle_motor", 404) EXCEPT !.cell_code = code]
              /\ UNCHANGED <<pc, cell>>
         ELSE /\ \E d \in find_one(shelfcell, code) :
                    cell' = [cell EXCEPT ![t] =
                               [_id |-> d._id, cell_code |-> d.cell_code,
                                motor_active |-> d.motor_active]]
              /\ pc' = [pc EXCEPT ![t] = "update"]
              /\ UNCHANGED last
    /\ UNCHANGED <<shelfcell, idx, flips>>
    /\ UNCHANGED orderVars

\* db["shelfcell"].update_one({"_id": cell["_id"]}, {"$set": {"motor_active": new_state}})
\* and the return of {"cell_code": cell_code, "motor_active": new_state}.
toggle_motor_update(t) ==
    /\ pc[t] = "update"
    /\ shelfcell' = update_motor(shelfcell, cell[t]._id, NewState(cell[t]))
    /\ last' = [Response("toggle_motor", 200) EXCEPT
                  !.cell_code = cell[t].cell_code,
                  !.motor_active = NewState(cell[t])]
    /\ flips' = [flips EXCEPT ![cell[t].cell_code] = 1 - @]
    /\ pc' = [pc EXCEPT ![t] = "idle"]
    /\ cell' = [cell EXCEPT ![t] = NoCell]
    /\ UNCHANGED idx
    /\ UNCHANGED orderVars

ShelfNext ==
    \E t \in Threads :
        \/ get_shelves_read(t)
        \/ get_shelves_seed(t)
        \/ get_shelves_return(t)
        \/ \E code \in ToggleCodes : toggle_motor_find(t, code)
        \/ toggle_motor_update(t)

SpecShelf == Init /\ [][ShelfNext]_vars

\* ----------------------------------------------------------------- claims

TerminalStatuses == {"ready", "failed", "cancelled"}

\* The document of the shelfcell collection coll stored under id.
DocOf(coll, id) == CHOOSE d \in coll : d._id = id

\* No thread is inside get_shelves.
NoSeeding == \A t \in Threads : pc[t] \notin {"seed", "reread"}

\* No thread is between toggle_motor's find_one and its update_one.
NoToggling == \A t \in Threads : pc[t] # "update"

\* C1: with product P held by exactly one cell, of stock 1, at most one of
\* the createOrder calls asking for one unit of P is accepted.
C1_NoOversell ==
    \A prod \in Products :
        LET holders == {d \in shelfcell : d.product_id = prod}
            unit == <<[product_id |-> prod, quantity |-> 1]>>
        IN  (Cardinality(holders) = 1 /\ \A d \in holders : d.stock = 1)
              => Cardinality({o \in DOMAIN order : order[o].items = unit}) <= 1

\* C2: every stored order has status ready exactly when its progress is 100.
C2_ReadyIffComplete ==
    \A o \in DOMAIN order : (order[o].status = "ready") <=> (order[o].progress = 100)

C2_Witness ==
    \E o, q \in DOMAIN order :
        /\ order[o].status = "ready" /\ order[o].progress = 100
        /\ order[q].status = "processing" /\ order[q].progress = 50
        /\ last.op = "set_order_progress"

\* C3: no step lowers the stored progress of an order.
C3_ProgressMonotone ==
    [][\A o \in DOMAIN order : order'[o].progress >= order[o].progress]_vars

\* C4: once no get_shelves call is running and the collection has been
\* seeded, it holds exactly the cells A1..A20, each code once, and the cells a
\* request seeded have stock 0.
C4_SeededOnce ==
    (NoSeeding /\ shelfcell # {}) =>
        /\ \A c \in SeedCodes : Cardinality(find_one(shelfcell, c)) = 1
        /\ \A d \in shelfcell : d.cell_code \in SeedCodes
        /\ \A d \in shelfcell : d._id[1] \in Threads => d.stock = 0

\* C5: the response to a request naming an order or a cell that is not in
\* the store is 404 (NotFoundError).
C5_AbsentIsNotFound ==
    /\ (last.op \in {"get_order", "set_order_progress"}
          /\ IsObjectId(last.id) /\ last.id \notin DOMAIN order)
         => last.status = 404
    /\ (last.op = "toggle_motor" /\ find_one(shelfcell, last.cell_code) = {})
         => last.status = 404

\* C6: the step that completes toggle_motor returns the negation of the
\* motor_active its find_one read, with status 200 and the requested code,
\* and stores the value it returns; when the stored value is still the one
\* read (no other call wrote in between), the stored value is flipped.
C6_ToggleNegates ==
    [][\A t \in Threads :
         (pc[t] = "update" /\ pc'[t] = "idle") =>
             LET before == DocOf(shelfcell, cell[t]._id)
                 after == DocOf(shelfcell', cell[t]._id)
             IN  /\ last'.op = "toggle_motor" /\ last'.status = 200
                 /\ last'.cell_code = before.cell_code
                 /\ last'.motor_active = ~cell[t].motor_active
                 /\ after.motor_active = last'.motor_active
                 /\ (before.motor_active = cell[t].motor_active
                       => after.motor_active = ~before.motor_active)]_vars

\* Two calls, one after the other, on the only A1 cell: the second returned
\* false and false is stored.
C6_Witness ==
    /\ last.op = "toggle_motor" /\ last.status = 200
    /\ last.cell_code = CellCode(1) /\ last.motor_active = FALSE
    /\ flips[CellCode(1)] = 0
    /\ NoToggling
    /\ Cardinality(find_one(shelfcell, CellCode(1))) = 1
    /\ \A d \in find_one(shelfcell, CellCode(1)) : d.motor_active = FALSE

\* C7: after setOrderProgress(id, p) on a stored order, the stored progress
\* is min(100, max(0, p)), the stored status is ready exactly when that is 100,
\* and the response carries the stored values.
C7_ClampStored ==
    (last.op = "set_order_progress" /\ last.status = 200 /\ last.id \in DOMAIN order) =>
        LET want == Min(100, Max(0, last.arg))
            o == order[last.id]
        IN  /\ o.progress = want
            /\ (o.status = "ready") <=> (want = 100)
            /\ last.progress = o.progress
            /\ last.state = o.status

C7_Witness ==
    /\ last.op = "set_order_progress" /\ last.status = 200
    /\ last.arg = 101 /\ last.id \in DOMAIN order
    /\ order[last.id].progress = 100 /\ last.state = "ready"

\* C8: an order whose status is ready, failed or cancelled keeps that status.
C8_TerminalStatusKept ==
    [][\A o \in DOMAIN order :
         order[o].status \in TerminalStatuses => order'[o].status = order[o].status]_vars

C10_NoLostToggle ==
    \A c \in ToggleCodes :
        (NoToggling /\ Cardinality(find_one(shelfcell, c)) = 1) =>
            \A d \in find_one(shelfcell, c) : d.motor_active = (flips[c] = 1)

====
